---- MODULE Spec2Model ----
(***************************************************************************)
(* kml_polygon_to_convex_hull.py: extraction of the polygons of a KML      *)
(* layer, validity repair, union, convex hull, and the write of the hull.  *)
(* Coordinates are integers; a geometry is a record [kind, parts] whose    *)
(* parts are closed rings (sequences of <<x, y>>), as shapely holds them.  *)
(***************************************************************************)
EXTENDS Integers, Sequences, FiniteSets

\* ------------------------------------------------------------- bounds
\* Features in the input layer, and sub-geometries of one MULTIPOLYGON.
MaxFeatures == 2
MaxParts == 2

\* ------------------------------------------------------ input rings
\* Outer rings as OGR hands them out (GetPoint(i) for i < GetPointCount()).
EmptyRing == << >>
ShortRing == << <<0, 0>>, <<1, 1>> >>
SquareA == << <<0, 0>>, <<1, 0>>, <<1, 1>>, <<0, 1>>, <<0, 0>> >>
SquareB == << <<2, 2>>, <<3, 2>>, <<3, 3>>, <<2, 3>> >>
Bowtie == << <<0, 0>>, <<2, 2>>, <<2, 0>>, <<0, 2>> >>
Collinear == << <<0, 0>>, <<1, 1>>, <<2, 2>> >>
Rings == {EmptyRing, ShortRing, SquareA, SquareB, Bowtie, Collinear}

\* A (sub-)polygon of OGR: no ring at all (GetGeometryRef(0) is None) or one
\* outer ring.
SubPolygons == {<< >>} \cup {<<r>> : r \in Rings}

\* The sub-polygons MULTIPOLYGON features are made of: without a ring, with a
\* ring Polygon(coords) raises on, with a ring it accepts.
MultiSubPolygons == {<< >>, <<ShortRing>>, <<SquareB>>}

SeqsUpTo(S, n) == UNION {[1..k -> S] : k \in 0..n}

\* A feature: its geometry name and sub-polygons. "NONE" is a feature whose
\* GetGeometryRef() is None; a POLYGON is its own single sub-polygon.
Features ==
    {[type |-> t, subs |-> << >>] : t \in {"NONE", "LINESTRING"}}
    \cup {[type |-> "POLYGON", subs |-> <<s>>] : s \in SubPolygons}
    \cup {[type |-> "MULTIPOLYGON", subs |-> ss] : ss \in SeqsUpTo(MultiSubPolygons, MaxParts)}

Layers == SeqsUpTo(Features, MaxFeatures)

\* ---------------------------------------------------------- geometry
Cross(o, a, b) == (a[1] - o[1]) * (b[2] - o[2]) - (a[2] - o[2]) * (b[1] - o[1])

Dist2(a, b) == (a[1] - b[1]) * (a[1] - b[1]) + (a[2] - b[2]) * (a[2] - b[2])

Min(a, b) == IF a < b THEN a ELSE b
Max(a, b) == IF a < b THEN b ELSE a

\* p lies on the closed segment a-b.
OnSegment(a, b, p) ==
    /\ Cross(a, b, p) = 0
    /\ Min(a[1], b[1]) <= p[1] /\ p[1] <= Max(a[1], b[1])
    /\ Min(a[2], b[2]) <= p[2] /\ p[2] <= Max(a[2], b[2])

Sign(n) == IF n > 0 THEN 1 ELSE IF n < 0 THEN -1 ELSE 0

\* The closed segments a-b and c-d share a point.
SegmentsIntersect(a, b, c, d) ==
    \/ /\ Sign(Cross(a, b, c)) * Sign(Cross(a, b, d)) < 0
       /\ Sign(Cross(c, d, a)) * Sign(Cross(c, d, b)) < 0
    \/ OnSegment(a, b, c) \/ OnSegment(a, b, d)
    \/ OnSegment(c, d, a) \/ OnSegment(c, d, b)

\* The segments a-b and c-d cross in a single point interior to both.
SegmentsCross(a, b, c, d) ==
    /\ Sign(Cross(a, b, c)) * Sign(Cross(a, b, d)) < 0
    /\ Sign(Cross(c, d, a)) * Sign(Cross(c, d, b)) < 0

Range(s) == {s[k] : k \in DOMAIN s}

\* shapely closes a ring that is not closed.
CloseRing(coords) ==
    IF coords = << >> \/ coords[1] = coords[Len(coords)] THEN coords
    ELSE Append(coords, coords[1])

\* Polygon(coords) raises ValueError for a shell of one or two coordinates.
PolygonRaises(coords) == Len(coords) \in {1, 2}

\* Polygon(coords): the polygon of one closed shell; Polygon([]) is empty.
Polygon(coords) == [kind |-> "Polygon", parts |-> <<CloseRing(coords)>>]

\* MultiPolygon(polygons): the shells of the member polygons, in order.
MultiPolygon(polys) ==
    [kind |-> "MultiPolygon", parts |-> [k \in DOMAIN polys |-> polys[k].parts[1]]]

EmptyCollection == [kind |-> "GeometryCollection", parts |-> << >>]

NoGeometry == [kind |-> "None", parts |-> << >>]

isinstance_Polygon(g) == g.kind = "Polygon"

is_empty(g) == \A k \in DOMAIN g.parts : g.parts[k] = << >>

Vertices(g) == UNION {Range(g.parts[k]) : k \in DOMAIN g.parts}

\* Edge k of a closed ring joins ring[k] and ring[k+1].
Adjacent(ring, j, k) ==
    \/ k = j + 1 \/ j = k + 1
    \/ {j, k} = {1, Len(ring) - 1}

\* A closed ring is simple: at least three edges, no edge of length zero,
\* neighbouring edges meet in their common end only, other edges not at all.
RingIsSimple(ring) ==
    LET n == Len(ring) - 1 IN
    /\ n >= 3
    /\ \A k \in 1..n : ring[k] # ring[k + 1]
    /\ \A j \in 1..n : \A k \in 1..n :
          j < k =>
             IF Adjacent(ring, j, k)
             THEN LET shared == IF k = j + 1 THEN ring[k] ELSE ring[1]
                      a == IF k = j + 1 THEN ring[j] ELSE ring[j + 1]
                      b == IF k = j + 1 THEN ring[k + 1] ELSE ring[k]
                  IN  ~OnSegment(shared, a, b) /\ ~OnSegment(shared, b, a)
             ELSE ~SegmentsIntersect(ring[j], ring[j + 1], ring[k], ring[k + 1])

\* Twice the signed area of a closed ring.
RECURSIVE Area2From(_, _)
Area2From(ring, k) ==
    IF k >= Len(ring) THEN 0
    ELSE ring[k][1] * ring[k + 1][2] - ring[k + 1][1] * ring[k][2]
         + Area2From(ring, k + 1)

Area2(ring) == IF ring = << >> THEN 0 ELSE Area2From(ring, 1)

\* p lies strictly inside the simple closed ring (a triangle fan test is
\* enough for the convex rings this is used on).
StrictlyInsideConvex(ring, p) ==
    LET s == Sign(Area2(ring)) IN
    \A k \in 1..(Len(ring) - 1) : Sign(Cross(ring[k], ring[k + 1], p)) = s

\* Two shells of one MultiPolygon may touch in points but not cross, overlap
\* along an edge or lie inside one another.
ShellsDisjoint(r1, r2) ==
    /\ \A j \in 1..(Len(r1) - 1) : \A k \in 1..(Len(r2) - 1) :
          /\ ~SegmentsCross(r1[j], r1[j + 1], r2[k], r2[k + 1])
          /\ ~(OnSegment(r1[j], r1[j + 1], r2[k]) /\ OnSegment(r1[j], r1[j + 1], r2[k + 1]))
          /\ ~(OnSegment(r2[k], r2[k + 1], r1[j]) /\ OnSegment(r2[k], r2[k + 1], r1[j + 1]))
    /\ \A k \in 1..(Len(r2) - 1) : ~StrictlyInsideConvex(r1, r2[k])
    /\ \A j \in 1..(Len(r1) - 1) : ~StrictlyInsideConvex(r2, r1[j])

\* geometry.is_valid: an empty geometry is valid; a polygon is valid when its
\* shell is simple; a multipolygon when its shells are and do not overlap.
is_valid(g) ==
    /\ \A k \in DOMAIN g.parts : g.parts[k] = << >> \/ RingIsSimple(g.parts[k])
    /\ \A j \in DOMAIN g.parts : \A k \in DOMAIN g.parts :
          (j < k /\ g.parts[j] # << >> /\ g.parts[k] # << >>)
             => ShellsDisjoint(g.parts[j], g.parts[k])

\* The point where the crossing segments a-b and c-d meet (its coordinates
\* are integers for the rings of Rings).
CrossingPoint(a, b, c, d) ==
    LET num == Cross(c, d, a)
        den == Cross(c, d, a) - Cross(c, d, b)
    IN  <<a[1] + ((b[1] - a[1]) * num) \div den, a[2] + ((b[2] - a[2]) * num) \div den>>

\* The two lobes of a closed four-sided shell whose opposite edges cross.
Lobes(r) ==
    IF Len(r) # 5 THEN << >>
    ELSE IF SegmentsCross(r[1], r[2], r[3], r[4])
         THEN LET x == CrossingPoint(r[1], r[2], r[3], r[4])
              IN  << <<x, r[2], r[3], x>>, <<x, r[4], r[1], x>> >>
    ELSE IF SegmentsCross(r[2], r[3], r[4], r[1])
         THEN LET x == CrossingPoint(r[2], r[3], r[4], r[1])
              IN  << <<x, r[3], r[4], x>>, <<x, r[1], r[2], x>> >>
    ELSE << >>

\* polygon.buffer(0) of an invalid polygon, by what GEOS may return: a shell
\* without area collapses to the empty polygon; of a self-crossing shell
\* either one lobe survives (the lobes wind in opposite directions) or both
\* come back as a MultiPolygon.
buffer0(g) ==
    LET l == Lobes(g.parts[1]) IN
    IF l = << >> THEN {Polygon(<< >>)}
    ELSE {Polygon(l[1]), Polygon(l[2]), MultiPolygon(<<Polygon(l[1]), Polygon(l[2])>>)}

\* validate_and_fix_polygon that buffers whether or not the polygon is valid.
validate_and_fix_always_buffers(polygon) == buffer0(polygon)

\* validate_and_fix_polygon(polygon): the geometries it may return.
validate_and_fix_polygon(polygon) ==
    IF ~is_valid(polygon) THEN buffer0(polygon) ELSE {polygon}

\* The buffer(0) calls validate_and_fix_polygon(polygon) makes.
BufferCallsOf(polygon) == IF ~is_valid(polygon) THEN 1 ELSE 0

\* The list comprehension's condition on an extracted entry.
PassesFilter(poly) == isinstance_Polygon(poly) /\ ~is_empty(poly)

RECURSIVE NonEmptyShells(_)
NonEmptyShells(geoms) ==
    IF geoms = << >> THEN << >>
    ELSE SelectSeq(geoms[1].parts, LAMBDA r : r # << >>) \o NonEmptyShells(Tail(geoms))

\* unary_union that takes the first member only.
unary_union_first(geoms) ==
    LET shells == NonEmptyShells(SubSeq(geoms, 1, 1)) IN
    IF shells = << >> THEN EmptyCollection
    ELSE [kind |-> IF Len(shells) = 1 THEN "Polygon" ELSE "MultiPolygon", parts |-> shells]

\* unary_union(geoms). The dissolve is kept as the shells of the members:
\* the hull taken of it next depends only on the extreme vertices, which a
\* union of polygonal members keeps.
unary_union(geoms) ==
    LET shells == NonEmptyShells(geoms) IN
    IF shells = << >> THEN EmptyCollection
    ELSE [kind |-> IF Len(shells) = 1 THEN "Polygon" ELSE "MultiPolygon", parts |-> shells]

\* The lowest, then leftmost, point of a non-empty set.
Lowest(S) ==
    CHOOSE p \in S : \A q \in S : p[2] < q[2] \/ (p[2] = q[2] /\ p[1] <= q[1])

\* The hull vertex after p, counter-clockwise: every point is left of p-q or
\* on it and no farther than q.
NextOnHull(S, p) ==
    CHOOSE q \in S \ {p} :
        \A r \in S : Cross(p, q, r) > 0 \/ (Cross(p, q, r) = 0 /\ Dist2(p, r) <= Dist2(p, q))

RECURSIVE HullWalk(_, _, _, _)
HullWalk(S, start, cur, acc) ==
    LET q == NextOnHull(S, cur) IN
    IF q = start THEN Append(acc, start)
    ELSE HullWalk(S, start, q, Append(acc, q))

AllCollinear(S) == \A a \in S : \A b \in S : \A c \in S : Cross(a, b, c) = 0

\* geometry.convex_hull: empty of an empty geometry, a Point or a LineString
\* of vertices without extent, else the closed counter-clockwise ring of the
\* hull's corners.
convex_hull(g) ==
    LET S == Vertices(g) IN
    IF S = {} THEN EmptyCollection
    ELSE IF Cardinality(S) = 1 THEN [kind |-> "Point", parts |-> <<<<Lowest(S)>>>>]
    ELSE IF AllCollinear(S)
         THEN LET a == Lowest(S)
                  b == CHOOSE q \in S : \A r \in S : Dist2(a, r) <= Dist2(a, q)
              IN  [kind |-> "LineString", parts |-> <<<<a, b>>>>]
    ELSE [kind |-> "Polygon", parts |-> <<HullWalk(S, Lowest(S), Lowest(S), <<Lowest(S)>>)>>]

\* geometry.wkt: the tagged text of the geometry, rings written closed.
wkt(g) ==
    IF is_empty(g) THEN [tag |-> "GEOMETRYCOLLECTION EMPTY", text |-> << >>]
    ELSE [tag |-> IF g.kind = "Polygon" THEN "POLYGON"
                  ELSE IF g.kind = "Point" THEN "POINT" ELSE "LINESTRING",
          text |-> g.parts[1]]

\* ogr.CreateGeometryFromWkt(text) when OGR accepts the text.
CreateGeometryFromWkt(w) ==
    IF w.tag = "POLYGON" THEN [kind |-> "POLYGON", parts |-> <<w.text>>]
    ELSE IF w.tag = "GEOMETRYCOLLECTION EMPTY" THEN [kind |-> "GEOMETRYCOLLECTION", parts |-> << >>]
    ELSE [kind |-> w.tag, parts |-> <<w.text>>]

\* ------------------------------------------------------------- state
VARIABLES
    layer,           \* the features of the layer of the input file
    pc,              \* the statement the run is at
    idx,             \* the feature the loop of extract_polygons_from_kml is at
    polygons,        \* the list extract_polygons_from_kml builds and returns
    vidx,            \* the entry of polygons the comprehension is at
    valid_polygons,  \* the list the comprehension builds
    combined,        \* unary_union(valid_polygons)
    hull,            \* combined.convex_hull
    hull_geom,       \* the OGR geometry made of the hull's WKT
    inputDs,         \* the input data source: none, open, dropped, released
    outDs,           \* the output data source: none, None, open, dropped, released
    outLayer,        \* the output layer: none, None, open
    fileCreated,     \* the output file exists
    featureErr,      \* layer.CreateFeature returned an error code
    written,         \* the geometry of the feature in the output file
    bufferCalls,     \* buffer(0) calls made
    called,          \* the steps run: repair, union, hull, writer
    exit             \* how the run ended; none while it runs

vars == <<layer, pc, idx, polygons, vidx, valid_polygons, combined, hull, hull_geom,
          inputDs, outDs, outLayer, fileCreated, featureErr, written, bufferCalls,
          called, exit>>

Init ==
    /\ layer \in Layers
    /\ pc = "Open"
    /\ idx = 1
    /\ polygons = << >>
    /\ vidx = 1
    /\ valid_polygons = << >>
    /\ combined = NoGeometry
    /\ hull = NoGeometry
    /\ hull_geom = NoGeometry
    /\ inputDs = "none"
    /\ outDs = "none"
    /\ outLayer = "none"
    /\ fileCreated = FALSE
    /\ featureErr = FALSE
    /\ written = NoGeometry
    /\ bufferCalls = 0
    /\ called = {}
    /\ exit = "none"

\* The sub-polygons that have an outer ring, in order.
WithRing(subs) == SelectSeq(subs, LAMBDA s : s # << >>)

\* Polygon(coords) raises for one of the rings of the feature.
FeatureRaises(f) ==
    /\ f.type \in {"POLYGON", "MULTIPOLYGON"}
    /\ \E k \in DOMAIN f.subs : f.subs[k] # << >> /\ PolygonRaises(f.subs[k][1])

\* What the loop body appends to polygons for one feature.
Extracted(f) ==
    LET rings == WithRing(f.subs)
        built == [k \in DOMAIN rings |-> Polygon(rings[k][1])]
    IN  IF f.type = "POLYGON" THEN built
        ELSE IF f.type = "MULTIPOLYGON" THEN <<MultiPolygon(built)>>
        ELSE << >>

\* Lines 8-15: the driver opens the input, or the run raises.
Open ==
    /\ pc = "Open"
    /\ \E ok \in BOOLEAN :
          IF ok
          THEN /\ inputDs' = "open"
               /\ pc' = "Loop"
               /\ exit' = exit
          ELSE /\ inputDs' = inputDs
               /\ pc' = "end"
               /\ exit' = "raise_open_failed"
    /\ UNCHANGED <<layer, idx, polygons, vidx, valid_polygons, combined, hull, hull_geom,
                   outDs, outLayer, fileCreated, featureErr, written, bufferCalls, called>>

\* Lines 18-40: one pass of the loop over the layer's features.
ExtractFeature ==
    /\ pc = "Loop"
    /\ idx <= Len(layer)
    /\ IF FeatureRaises(layer[idx])
       THEN /\ pc' = "end"
            /\ exit' = "raise_polygon_coords"
            /\ UNCHANGED <<idx, polygons>>
       ELSE /\ polygons' = polygons \o Extracted(layer[idx])
            /\ idx' = idx + 1
            /\ UNCHANGED <<pc, exit>>
    /\ UNCHANGED <<layer, vidx, valid_polygons, combined, hull, hull_geom, inputDs,
                   outDs, outLayer, fileCreated, featureErr, written, bufferCalls, called>>

\* Lines 42-43: extract_polygons_from_kml returns; its data source is left
\* to the collector, no statement closes it.
ExtractReturn ==
    /\ pc = "Loop"
    /\ idx > Len(layer)
    /\ inputDs' = "dropped"
    /\ pc' = "CheckPolygons"
    /\ UNCHANGED <<layer, idx, polygons, vidx, valid_polygons, combined, hull, hull_geom,
                   outDs, outLayer, fileCreated, featureErr, written, bufferCalls, called,
                   exit>>

\* Lines 56-58.
CheckPolygons ==
    /\ pc = "CheckPolygons"
    /\ IF polygons = << >>
       THEN pc' = "end" /\ exit' = "raise_no_polygons"
       ELSE pc' = "Validate" /\ exit' = exit
    /\ UNCHANGED <<layer, idx, polygons, vidx, valid_polygons, combined, hull, hull_geom,
                   inputDs, outDs, outLayer, fileCreated, featureErr, written, bufferCalls,
                   called>>

\* Line 61, one entry of polygons: filtered, then repaired.
ValidateNext ==
    /\ pc = "Validate"
    /\ vidx <= Len(polygons)
    /\ IF PassesFilter(polygons[vidx])
       THEN /\ \E q \in validate_and_fix_polygon(polygons[vidx]) :
                  valid_polygons' = Append(valid_polygons, q)
            /\ bufferCalls' = bufferCalls + BufferCallsOf(polygons[vidx])
            /\ called' = called \cup {"repair"}
       ELSE UNCHANGED <<valid_polygons, bufferCalls, called>>
    /\ vidx' = vidx + 1
    /\ UNCHANGED <<layer, pc, idx, polygons, combined, hull, hull_geom, inputDs, outDs,
                   outLayer, fileCreated, featureErr, written, exit>>

\* Lines 63-65.
CheckValid ==
    /\ pc = "Validate"
    /\ vidx > Len(polygons)
    /\ IF valid_polygons = << >>
       THEN pc' = "end" /\ exit' = "return_no_valid_polygons"
       ELSE pc' = "Reduce" /\ exit' = exit
    /\ UNCHANGED <<layer, idx, polygons, vidx, valid_polygons, combined, hull, hull_geom,
                   inputDs, outDs, outLayer, fileCreated, featureErr, written, bufferCalls,
                   called>>

\* Lines 67-74 without the test of line 70.
Reduce_without_empty_test ==
    /\ pc = "Reduce"
    /\ combined' = unary_union(valid_polygons)
    /\ hull' = convex_hull(combined')
    /\ called' = called \cup {"union", "hull"}
    /\ pc' = "CreateDataSource"
    /\ UNCHANGED <<layer, idx, polygons, vidx, valid_polygons, hull_geom, inputDs, outDs,
                   outLayer, fileCreated, featureErr, written, bufferCalls, exit>>

\* Lines 67-74.
Reduce ==
    /\ pc = "Reduce"
    /\ combined' = unary_union(valid_polygons)
    /\ hull' = convex_hull(combined')
    /\ called' = called \cup {"union", "hull"}
    /\ IF is_empty(hull')
       THEN pc' = "end" /\ exit' = "return_empty_hull"
       ELSE pc' = "CreateDataSource" /\ exit' = exit
    /\ UNCHANGED <<layer, idx, polygons, vidx, valid_polygons, hull_geom, inputDs, outDs,
                   outLayer, fileCreated, featureErr, written, bufferCalls>>

\* Lines 77-80: the KML driver creates the output file, or returns None.
CreateDataSource ==
    /\ pc = "CreateDataSource"
    /\ called' = called \cup {"writer"}
    /\ \E ok \in BOOLEAN :
          /\ outDs' = IF ok THEN "open" ELSE "None"
          /\ fileCreated' = ok
    /\ pc' = "CreateLayer"
    /\ UNCHANGED <<layer, idx, polygons, vidx, valid_polygons, combined, hull, hull_geom,
                   inputDs, outLayer, featureErr, written, bufferCalls, exit>>

\* Line 81: a method call on None raises AttributeError.
CreateLayer ==
    /\ pc = "CreateLayer"
    /\ IF outDs = "None"
       THEN /\ pc' = "end"
            /\ exit' = "raise_datasource_none"
            /\ outLayer' = outLayer
       ELSE /\ \E ok \in BOOLEAN : outLayer' = IF ok THEN "open" ELSE "None"
            /\ pc' = "MakeFeature"
            /\ exit' = exit
    /\ UNCHANGED <<layer, idx, polygons, vidx, valid_polygons, combined, hull, hull_geom,
                   inputDs, outDs, fileCreated, featureErr, written, bufferCalls, called>>

\* Lines 83-89: the feature and its geometry from the hull's WKT; a return
\* drops the locals without closing the data source.
MakeFeature ==
    /\ pc = "MakeFeature"
    /\ IF outLayer = "None"
       THEN /\ pc' = "end"
            /\ exit' = "raise_layer_none"
            /\ UNCHANGED <<hull_geom, outDs>>
       ELSE \E ok \in BOOLEAN :
               IF ok
               THEN /\ hull_geom' = CreateGeometryFromWkt(wkt(hull))
                    /\ pc' = "CreateFeature"
                    /\ UNCHANGED <<exit, outDs>>
               ELSE /\ hull_geom' = NoGeometry
                    /\ pc' = "end"
                    /\ exit' = "return_no_hull_geom"
                    /\ outDs' = "dropped"
    /\ UNCHANGED <<layer, idx, polygons, vidx, valid_polygons, combined, hull, inputDs,
                   outLayer, fileCreated, featureErr, written, bufferCalls, called>>

\* Lines 91-92: the error code of CreateFeature is not looked at.
CreateFeature ==
    /\ pc = "CreateFeature"
    /\ \E ok \in BOOLEAN :
          /\ featureErr' = ~ok
          /\ written' = IF ok THEN hull_geom ELSE written
    /\ pc' = "CleanUp"
    /\ UNCHANGED <<layer, idx, polygons, vidx, valid_polygons, combined, hull, hull_geom,
                   inputDs, outDs, outLayer, fileCreated, bufferCalls, called, exit>>

\* Lines 95-98.
CleanUp ==
    /\ pc = "CleanUp"
    /\ outDs' = "released"
    /\ pc' = "end"
    /\ exit' = "return_saved"
    /\ UNCHANGED <<layer, idx, polygons, vidx, valid_polygons, combined, hull, hull_geom,
                   inputDs, outLayer, fileCreated, featureErr, written, bufferCalls, called>>

Next ==
    \/ Open
    \/ ExtractFeature
    \/ ExtractReturn
    \/ CheckPolygons
    \/ ValidateNext
    \/ CheckValid
    \/ Reduce
    \/ CreateDataSource
    \/ CreateLayer
    \/ MakeFeature
    \/ CreateFeature
    \/ CleanUp

Spec == Init /\ [][Next]_vars

\* ------------------------------------------------- how a run has ended
\* The run left create_convex_hull by an exception.
Raised ==
    exit \in {"raise_open_failed", "raise_polygon_coords", "raise_no_polygons",
              "raise_datasource_none", "raise_layer_none"}

\* The run printed an error and returned (lines 71-72 and 88-89).
ErrorReported == exit \in {"return_empty_hull", "return_no_hull_geom"}

Failed == Raised \/ ErrorReported

\* The soft stop of lines 64-65, or the save of line 98.
Done == exit \in {"return_no_valid_polygons", "return_saved"}

\* The loop over the layer ran to its end.
ExtractionCompleted ==
    pc \notin {"Open", "Loop"} /\ exit \notin {"raise_open_failed", "raise_polygon_coords"}

\* ------------------------------------------------------------ claims
\* g is a valid, non-empty polygon whose shell is strictly convex.
IsConvexPolygon(g) ==
    /\ g.kind \in {"Polygon", "POLYGON"}
    /\ Len(g.parts) = 1
    /\ LET ring == g.parts[1]
           n == Len(ring) - 1
       IN  /\ n >= 3
           /\ ring[1] = ring[n + 1]
           /\ Area2(ring) # 0
           /\ RingIsSimple(ring)
           /\ \A k \in 1..n :
                 Sign(Cross(ring[k], ring[k + 1], ring[IF k = n THEN 2 ELSE k + 2]))
                    = Sign(Area2(ring))

\* g is the convex hull of the point set S.
IsHullOf(g, S) ==
    /\ IsConvexPolygon(g)
    /\ Range(g.parts[1]) \subseteq S
    /\ \A p \in S : \A k \in 1..(Len(g.parts[1]) - 1) :
          Sign(Cross(g.parts[1][k], g.parts[1][k + 1], p)) * Sign(Area2(g.parts[1])) >= 0

\* Every geometry handed to the union is a valid, non-empty Polygon.
ReducerInputValid ==
    \A j \in DOMAIN valid_polygons :
        /\ isinstance_Polygon(valid_polygons[j])
        /\ ~is_empty(valid_polygons[j])
        /\ is_valid(valid_polygons[j])

Hexagon == {<<0, 0>>, <<1, 0>>, <<3, 2>>, <<3, 3>>, <<2, 3>>, <<0, 1>>}

\* C1: every non-empty outer ring of every MultiPolygon feature is handed to
\* the union, so a run that extracted such a ring reaches the union and hull
\* steps and the union holds the ring's vertices.
C1_MultiPolygonRingsReachUnion ==
    (pc = "end" /\ ExtractionCompleted) =>
        \A j \in DOMAIN polygons : \A k \in DOMAIN polygons[j].parts :
            (polygons[j].kind = "MultiPolygon" /\ RingIsSimple(polygons[j].parts[k]))
                => /\ {"union", "hull"} \subseteq called
                   /\ Range(polygons[j].parts[k]) \subseteq Vertices(combined)

\* C2: when the polygons that reach the reducer are valid, non-empty
\* Polygons, the geometry handed to the writer is the convex hull of their
\* vertices; the squares (0,0)-(1,1) and (2,2)-(3,3) give the hexagon.
C2_HullOfVertexSet ==
    (pc \in {"CreateFeature", "CleanUp"} /\ ReducerInputValid) =>
        /\ IsHullOf(hull_geom, UNION {Vertices(valid_polygons[j]) : j \in DOMAIN valid_polygons})
        /\ (valid_polygons = <<Polygon(SquareA), Polygon(SquareB)>>
               => Range(hull_geom.parts[1]) = Hexagon)

C2_Witness ==
    /\ pc = "CreateFeature"
    /\ valid_polygons = <<Polygon(SquareA), Polygon(SquareB)>>
    /\ Range(hull_geom.parts[1]) = Hexagon

\* C3: a run that ends in failure has created no output file.
C3_NoOutputOnFailure == (pc = "end" /\ Failed) => ~fileCreated

\* C4: when no feature of the layer contributes a polygon, the run fails
\* with NoPolygonsFound and runs neither repair, union, hull nor writer.
C4_NoPolygonsFound ==
    (/\ pc = "end"
     /\ ExtractionCompleted
     /\ \A i \in DOMAIN layer :
           \/ layer[i].type \in {"NONE", "LINESTRING"}
           \/ \A k \in DOMAIN layer[i].subs : layer[i].subs[k] = << >>)
        => exit = "raise_no_polygons" /\ called = {}

\* C5: when something was extracted and nothing non-empty is left after
\* repair, the run stops softly: Done, nothing raised, no writer, no file.
C5_SoftStop ==
    (/\ pc = "end"
     /\ ExtractionCompleted
     /\ polygons # << >>
     /\ \A j \in DOMAIN valid_polygons : is_empty(valid_polygons[j]))
        => exit = "return_no_valid_polygons" /\ "writer" \notin called /\ ~fileCreated

\* C6: a union or hull that is empty or no polygon with area ends the run
\* Failed by the empty-result error, with no writer step; the writer only
\* ever sees a valid, non-empty convex polygon.
C6_EmptyResultFails ==
    LET degenerate == is_empty(combined) \/ ~IsConvexPolygon(hull) IN
    /\ ("writer" \in called \/ pc = "CreateDataSource") => ("hull" \in called /\ ~degenerate)
    /\ ("hull" \in called /\ degenerate)
          => /\ pc = "end"
             /\ exit = "return_empty_hull"
             /\ Failed
             /\ "writer" \notin called

C6_Witness == exit = "return_empty_hull" /\ is_empty(combined) /\ valid_polygons # << >>

\* C7: a run ends Done by saving only if the data source, the layer and the
\* feature were all created; a writer failure ends the run Failed.
C7_WriterFailureFails ==
    pc = "end" =>
        /\ exit = "return_saved" => (outDs = "released" /\ outLayer = "open" /\ ~featureErr)
        /\ (outDs = "None" \/ outLayer = "None" \/ featureErr) => Failed

\* C8: validate_and_fix_polygon is idempotent: repairing a repaired polygon
\* returns it unchanged with no buffer call, and a valid polygon is returned
\* as it is, one buffer call being made per invalid polygon and no other.
C8_RepairIdempotent ==
    LET kept == SelectSeq(SubSeq(polygons, 1, vidx - 1), PassesFilter) IN
    /\ Len(valid_polygons) = Len(kept)
    /\ \A j \in DOMAIN valid_polygons :
          /\ validate_and_fix_polygon(valid_polygons[j]) = {valid_polygons[j]}
          /\ BufferCallsOf(valid_polygons[j]) = 0
          /\ is_valid(kept[j]) => valid_polygons[j] = kept[j]
    /\ bufferCalls = Len(SelectSeq(kept, LAMBDA g : ~is_valid(g)))

C8_Witness ==
    /\ pc = "Reduce"
    /\ bufferCalls = 1
    /\ \E j \in DOMAIN valid_polygons : valid_polygons[j].kind = "MultiPolygon"
    /\ \E j \in DOMAIN valid_polygons : valid_polygons[j] = Polygon(SquareA)

\* C9: when the run has ended, neither the input nor the output data source
\* is still held open.
C9_HandlesReleased == pc = "end" => (inputDs # "open" /\ outDs # "open")

\* C10: every geometry handed to the union is a valid, non-empty Polygon.
C10_UnionInputValid == pc = "Reduce" => ReducerInputValid

====
